---- MODULE Spec2Model ----
(***************************************************************************)
(* Quest completer: the completion engine (one quest driven by its         *)
(* protocol handler) and the supervisor that schedules the handlers.       *)
(*                                                                         *)
(* The repository holds two implementations of the engine, and both are    *)
(* modelled: "logic" is src/logic/quests.py driven by src/main.py, "new"   *)
(* is src/new_main.py.  The variable `variant` says which one runs.        *)
(*                                                                         *)
(* Time is counted in clock ticks, Res ticks to the second, so that the    *)
(* fractional jitter of the Watch protocol and the fractional part of the  *)
(* elapsed time exist in the model.  A remote call is split at its await:  *)
(* one action posts the request, the next one receives the reply (or the   *)
(* transport failure).  Between two awaits a coroutine runs atomically.    *)
(***************************************************************************)
EXTENDS Integers, Sequences, FiniteSets, TLC

VARIABLES
    variant,         \* "logic" (logic/quests.py + main.py) or "new" (new_main.py)
    quest,           \* the quest handed to complete_quest
    pc,              \* position of the handler coroutine
    handler,         \* the protocol handler complete_quest chose: "none", Watch or Play
    now,             \* wall clock, in ticks since enrolled_at
    seconds_needed,  \* the handler's target
    seconds_done,    \* Watch: the local counter
    completed,       \* Watch: a reply carried completed_at
    progress,        \* Play: progress of the last reply
    interval_,       \* Play: the interval drawn after the last reply, in ticks
    reply_at,        \* Play: the instant of the last reply
    end_,            \* instant at which the current sleep ends
    calls,           \* remote calls issued so far, in order
    events,          \* progress events emitted so far, in order
    result           \* "none", "true", "false", "raised" or "cancelled"

\* the completion engine's state
evars == <<variant, quest, pc, handler, now, seconds_needed, seconds_done, completed,
           progress, interval_, reply_at, end_, calls, events, result>>

VARIABLES
    main_pc,                          \* position of main()
    uncompleted_quests,               \* the Completeable quests of the last catalog, by id
    worthy_uncompleted_quests,        \* the worthy tier, sorted
    less_worthy_uncompleted_quuests,  \* the less worthy tier, sorted
    jobs,                             \* the completion jobs, in scheduling order
    cur,                              \* main.py: the job wrapper_quest_complete waits for
    sem_value,                        \* new_main.py: the semaphore's counter
    sem_waiters                       \* new_main.py: the jobs queued on the semaphore

VARIABLES
    remote,            \* the remote service: the user status of each quest it lists
    expired,           \* the listed quests whose expires_at is in the past by now
    counter,           \* main.py: the retry counter
    quests,            \* the last catalog fetched: a snapshot of `remote`
    enrollabe_quests,  \* main.py: the Enrollable quests of the last catalog
    idx,               \* main.py: position of the enrollment loop in enrollabe_quests
    all_enrolled,      \* main.py: the flag of the enrollment loop
    user_statuses,     \* whether each enroll_quest of this pass yielded a user status
    fetches,           \* number of catalog fetches issued
    enroll_calls,      \* the quests an enroll call was posted for, in order
    blocked,           \* the last catalog response carried the account-blocked flag
    settled            \* consecutive passes that ended with an empty Enrollable list

\* the reconciliation loop's state: the catalog and the enrollments, and the clock
cvars == <<remote, counter, quests, enrollabe_quests, idx, all_enrolled,
           user_statuses, fetches, enroll_calls, blocked, settled>>
rvars == <<expired, cvars>>

\* the supervisor's state
svars == <<main_pc, uncompleted_quests, worthy_uncompleted_quests,
           less_worthy_uncompleted_quuests, jobs, cur, sem_value, sem_waiters, rvars>>

VARIABLES
    displayed,   \* the progress bar of one job: the task's `completed`
    target,      \* the `done` of the last progress event
    ui_total,    \* the bar's `total`
    ui_pc,       \* position of the progress callback: "idle" or "stepping"
    stopped      \* new_main.py: stop_task was called on the bar

\* the progress display's state
uvars == <<displayed, target, ui_total, ui_pc, stopped>>

VARIABLES
    SUPER_PROPERTIES,  \* the shared super-properties: build number and session
    session_headers,   \* the X-Super-Properties header of the shared session
    rotation_pc,       \* position of change_heartbeat_id
    requests           \* the remote calls issued: the headers each one carried

\* the shared request headers' state
hvars == <<SUPER_PROPERTIES, session_headers, rotation_pc, requests>>

VARIABLES
    arg,      \* the quest a filter or a helper is applied to
    returned  \* the helper called and what it returned

\* the state of one call of a helper
fvars == <<arg, returned>>

xvars == <<uvars, hvars, fvars>>

vars == <<evars, svars, xvars>>

---------------------------------------------------------------------------
(* Bounds of the model *)

Res == 2            \* clock ticks per second
MaxElapsed == 8     \* the Watch clock stops after this many seconds
MaxLatency == 1     \* a remote call takes 0..MaxLatency ticks
MaxLate == 1        \* a sleep overshoots by 0..MaxLate ticks
MaxHeartbeats == 3  \* Play heartbeats posted in one run
MaxQuests == 3      \* quests listed in one catalog
MaxCalls == 2       \* remote calls of one job, as the supervisor sees it
MaxFetches == 5     \* catalog fetches of one run

(* Program constants *)

max_future == 10    \* slack, seconds
speed == 7          \* step, seconds
interval == 1       \* Watch tick, seconds
log_interval == 10  \* seconds between two "remaining" log lines
enrolled_at == 0    \* the clock's origin is the enrollment instant

Min(a, b) == IF a <= b THEN a ELSE b

Variants == {"logic", "new"}

---------------------------------------------------------------------------
(* Task names, as their "_"-separated segments *)

WATCH_VIDEO == <<"WATCH", "VIDEO">>
WATCH_VIDEO_ON_MOBILE == <<"WATCH", "VIDEO", "ON", "MOBILE">>
PLAY_ON_DESKTOP == <<"PLAY", "ON", "DESKTOP">>
PLAY_ACTIVITY == <<"PLAY", "ACTIVITY">>
STREAM_ON_DESKTOP == <<"STREAM", "ON", "DESKTOP">>
ACHIEVEMENT_IN_ACTIVITY == <<"ACHIEVEMENT", "IN", "ACTIVITY">>
LISTEN_ON_DESKTOP == <<"LISTEN", "ON", "DESKTOP">>

TaskNames == {WATCH_VIDEO, WATCH_VIDEO_ON_MOBILE, PLAY_ON_DESKTOP, PLAY_ACTIVITY,
              STREAM_ON_DESKTOP, ACHIEVEMENT_IN_ACTIVITY, LISTEN_ON_DESKTOP}

\* str.lower() on one segment
Lower(w) ==
    CASE w = "WATCH" -> "watch"
      [] w = "VIDEO" -> "video"
      [] w = "ON" -> "on"
      [] w = "MOBILE" -> "mobile"
      [] w = "PLAY" -> "play"
      [] w = "DESKTOP" -> "desktop"
      [] w = "ACTIVITY" -> "activity"
      [] w = "STREAM" -> "stream"
      [] w = "ACHIEVEMENT" -> "achievement"
      [] w = "IN" -> "in"
      [] w = "LISTEN" -> "listen"
      [] w = "Play" -> "play"
      [] w = "Activity" -> "activity"
      [] w = "Watch" -> "watch"
      [] w = "Video" -> "video"
      [] OTHER -> w

LowerName(n) == [i \in 1..Len(n) |-> Lower(n[i])]

\* QuestType, by its enum value
Unknown == "Unknown"
Achievement == "Achievement"
Stream == "Stream"
Activiy == "Activiy"
Play == "Play"
Watch == "Watch"

\* what `list(...)[0]` raises on an empty list
IndexError == "IndexError"

\* a classification by the first task name alone
determine_quest_type_first(tasks) ==
    IF tasks = <<>> THEN IndexError
    ELSE LET first == Lower(tasks[1][1])
         IN CASE first = "watch" -> Watch
              [] first = "play" -> Play
              [] first = "stream" -> Stream
              [] first = "achievement" -> Achievement
              [] OTHER -> Unknown

\* determine_quest_type, on the quest's task names in iteration order
determine_quest_type(tasks) ==
    IF \E i \in 1..Len(tasks) : LowerName(tasks[i]) = <<"play", "activity">>
    THEN Activiy
    ELSE IF tasks = <<>> THEN IndexError
    ELSE LET first == Lower(tasks[1][1])
         IN CASE first = "watch" -> Watch
              [] first = "play" -> Play
              [] first = "stream" -> Stream
              [] first = "achievement" -> Achievement
              [] OTHER -> Unknown

\* quest_map of complete_quest (logic): the types that have a handler
quest_map == {Watch, Play}

\* task_map of complete_quest (new): the task names that have a handler
task_map(name) ==
    CASE name = WATCH_VIDEO -> Watch
      [] name = WATCH_VIDEO_ON_MOBILE -> Watch
      [] name = PLAY_ON_DESKTOP -> Play
      [] OTHER -> Unknown

supported(tasks) == {tasks[i] : i \in {j \in 1..Len(tasks) : task_map(tasks[j]) # Unknown}}

---------------------------------------------------------------------------
(* The quests of the model: one task, its target and the progress the      *)
(* remote recorded before the handler starts.                              *)

WatchTargets == {12}
PlayTargets == {10}

Quests ==
    {[tasks |-> <<WATCH_VIDEO>>, target |-> n, done |-> d] :
        n \in WatchTargets, d \in {0, 3} \cup WatchTargets}
    \cup
    {[tasks |-> <<WATCH_VIDEO_ON_MOBILE>>, target |-> n, done |-> 0] : n \in WatchTargets}
    \cup
    {[tasks |-> <<t>>, target |-> n, done |-> d] :
        t \in {PLAY_ON_DESKTOP}, n \in PlayTargets, d \in {0} \cup PlayTargets}
    \cup
    {[tasks |-> <<t>>, target |-> n, done |-> 0] :
        t \in {PLAY_ACTIVITY, STREAM_ON_DESKTOP, ACHIEVEMENT_IN_ACTIVITY, LISTEN_ON_DESKTOP},
        n \in PlayTargets}

\* seconds since enrollment when the handler starts, in ticks
StartElapsed == {0, 1, 3 * Res}

\* what a Play reply may report
ProgressReplies(needed) == {(4 * needed) \div 5, needed - 1, needed, needed + 1}

\* random.uniform(a, b), seconds: the two ends of the range
Uniform(a, b) == {a * Res, b * Res}

VideoProgress(ts) == [kind |-> "video-progress", timestamp |-> ts]
Heartbeat(ts) == [kind |-> "heartbeat", timestamp |-> ts]
PlayHeartbeat == [kind |-> "heartbeat", timestamp |-> -1]

CallsOf(k) == {i \in 1..Len(calls) : calls[i].kind = k}

---------------------------------------------------------------------------
(* Watch protocol: complete_video_quest *)

\* a final heartbeat sent whatever the remote said
SendFinalHeartbeat_always(c) == TRUE

\* `if not completed:` after the loop
SendFinalHeartbeat(c) == ~c

\* a loop without its break
LocalBreak_never(done, needed) == FALSE

\* `if seconds_done >= seconds_needed: break`
LocalBreak(done, needed) == done >= needed

\* `if diffrence >= speed:`
MayCall(diffrence) == diffrence >= speed

\* the local counter after a reply, without its cap
Advance_uncapped(needed, next_) == next_

\* a local counter that a reply does not advance
Advance_none(needed, next_) == next_ - speed

\* `seconds_done = min(seconds_needed, next_)`
Advance(needed, next_) == Min(needed, next_)

\* a local counter advanced before the call is awaited
AfterFailure_advanced(done, next_) == next_

\* the local counter when session.post raises: the assignment after the await
\* is not reached
AfterFailure(done, next_) == done

\* the value sent to video-progress, in ticks
Timestamp(needed, next_, jitter) == Min(needed * Res, next_ * Res + jitter)

\* the code after the loop, entered with `completed` = c and the events ev
\* a handler that reports whether the remote confirmed completion
WatchResult_confirmed(c) == IF c THEN "true" ELSE "false"

\* `return True` at the end of complete_video_quest, whatever `completed` is
WatchResult(c) == "true"

AfterWatchLoop(c, ev) ==
    IF SendFinalHeartbeat(c)
    THEN /\ calls' = Append(calls, Heartbeat(seconds_needed * Res))
         /\ events' = ev
         /\ pc' = "await_final_heartbeat"
         /\ result' = result
    ELSE /\ calls' = calls
         /\ events' = IF variant = "logic"
                      THEN Append(ev, <<seconds_needed, seconds_needed>>)
                      ELSE ev
         /\ pc' = "returned"
         /\ result' = WatchResult(c)

\* the rest of one tick: the progress event, the break, the sleep
AfterTick(c, done, t) ==
    LET ev == Append(events, <<done, seconds_needed>>)
    IN IF LocalBreak(done, seconds_needed)
       THEN /\ AfterWatchLoop(c, ev)
            /\ end_' = end_
       ELSE /\ events' = ev
            /\ end_' = t + interval * Res
            /\ pc' = "watch_sleep"
            /\ UNCHANGED <<calls, result>>

\* `while not completed:` and the tick up to its first await
WatchLoop ==
    /\ pc = "watch_loop"
    /\ UNCHANGED <<variant, quest, handler, now, seconds_needed, seconds_done, completed,
                   progress, interval_, reply_at>>
    /\ IF completed
       THEN AfterWatchLoop(completed, events) /\ end_' = end_
       ELSE LET max_allowed == ((now - enrolled_at) \div Res) + max_future
                diffrence == max_allowed - seconds_done
                next_ == seconds_done + speed
            IN IF MayCall(diffrence)
               THEN \E jitter \in 0..(Res - 1) :
                      /\ calls' = Append(calls,
                                    VideoProgress(Timestamp(seconds_needed, next_, jitter)))
                      /\ pc' = "await_video_progress"
                      /\ UNCHANGED <<events, end_, result>>
               ELSE AfterTick(completed, seconds_done, now)

\* the reply to video-progress, or its transport failure
VideoProgressReply ==
    /\ pc = "await_video_progress"
    /\ UNCHANGED <<variant, quest, handler, seconds_needed, progress, interval_, reply_at>>
    /\ \E lat \in 0..MaxLatency :
         /\ now + lat <= MaxElapsed * Res
         /\ now' = now + lat
         /\ \/ \E completed_at \in BOOLEAN :
                 LET done == Advance(seconds_needed, seconds_done + speed)
                 IN /\ completed' = completed_at
                    /\ seconds_done' = done
                    /\ AfterTick(completed_at, done, now + lat)
            \/ /\ seconds_done' = AfterFailure(seconds_done, seconds_done + speed)
               /\ UNCHANGED <<completed, calls, events>>
               /\ IF variant = "logic"
                  THEN /\ pc' = "raised"
                       /\ result' = "raised"
                       /\ end_' = end_
                  ELSE /\ pc' = "watch_sleep"
                       /\ end_' = now + lat + interval * 2 * Res
                       /\ result' = result

\* asyncio.sleep returns
WatchWake ==
    /\ pc = "watch_sleep"
    /\ \E late \in 0..MaxLate :
         /\ end_ + late <= MaxElapsed * Res
         /\ now' = end_ + late
    /\ pc' = "watch_loop"
    /\ UNCHANGED <<variant, quest, handler, seconds_needed, seconds_done, completed, progress,
                   interval_, reply_at, end_, calls, events, result>>

\* the reply to the final heartbeat, or its transport failure
FinalHeartbeatReply ==
    /\ pc = "await_final_heartbeat"
    /\ UNCHANGED <<variant, quest, handler, seconds_needed, seconds_done, completed, progress,
                   interval_, reply_at, end_, calls>>
    /\ \E lat \in 0..MaxLatency :
         /\ now + lat <= MaxElapsed * Res
         /\ now' = now + lat
    /\ \/ /\ events' = Append(events, <<seconds_needed, seconds_needed>>)
          /\ pc' = "returned"
          /\ result' = WatchResult(completed)
       \/ IF variant = "logic"
          THEN /\ pc' = "raised"
               /\ result' = "raised"
               /\ events' = events
          ELSE /\ events' = Append(events, <<seconds_needed, seconds_needed>>)
               /\ pc' = "returned"
               /\ result' = WatchResult(completed)

---------------------------------------------------------------------------
(* Play protocol: complete_play_quest *)

\* a loop that also trusts the progress read locally at start
PlayDone_snapshot(p, needed) == p >= needed \/ quest.done >= needed

\* `if progress >= seconds_needed:` after a reply
PlayDone(p, needed) == p >= needed

\* the threshold taken inclusively
Last20_inclusive(p, needed) == 5 * p >= 4 * needed

\* `if progress > seconds_needed * 0.8:`; the float product is exact enough that
\* the comparison is the rational one
Last20(p, needed) == 5 * p > 4 * needed

\* the interval drawn after a reply
PlayInterval(p, needed) == IF Last20(p, needed) THEN Uniform(30, 45) ELSE Uniform(55, 70)

\* session.post(".../heartbeat") at the top of `while True:`
PostHeartbeat ==
    /\ Cardinality(CallsOf("heartbeat")) < MaxHeartbeats
    /\ calls' = Append(calls, PlayHeartbeat)
    /\ pc' = "await_heartbeat"

\* the reply to a heartbeat, or its transport failure
HeartbeatReply ==
    /\ pc = "await_heartbeat"
    /\ UNCHANGED <<variant, quest, handler, seconds_needed, seconds_done, completed, calls>>
    /\ \E lat \in 0..MaxLatency :
         /\ now' = now + lat
         /\ \/ \E p \in ProgressReplies(seconds_needed) :
                 /\ progress' = p
                 /\ reply_at' = now + lat
                 /\ IF PlayDone(p, seconds_needed)
                    THEN /\ events' = IF variant = "logic"
                                      THEN events \o <<<<p, seconds_needed>>,
                                                       <<seconds_needed, seconds_needed>>>>
                                      ELSE Append(events, <<p, seconds_needed>>)
                         /\ pc' = "returned"
                         /\ result' = "true"
                         /\ UNCHANGED <<interval_, end_>>
                    ELSE /\ events' = Append(events, <<p, seconds_needed>>)
                         /\ \E i \in PlayInterval(p, seconds_needed) :
                              /\ interval_' = i
                              /\ end_' = now + lat + i
                         /\ pc' = "play_sleep"
                         /\ result' = result
            \/ /\ UNCHANGED <<progress, reply_at, interval_, events>>
               /\ IF variant = "logic"
                  THEN /\ pc' = "raised"
                       /\ result' = "raised"
                       /\ end_' = end_
                  ELSE /\ \E backoff \in Uniform(10, 20) : end_' = now + lat + backoff
                       /\ pc' = "play_sleep"
                       /\ result' = result

\* the sleep between two heartbeats: the logging loop (logic), one sleep (new)
PlaySleep ==
    /\ pc = "play_sleep"
    /\ UNCHANGED <<variant, quest, handler, seconds_needed, seconds_done, completed, progress,
                   interval_, reply_at, end_, events, result>>
    /\ IF variant = "logic"
       THEN LET remaining == end_ - now
            IN IF remaining <= 0
               THEN PostHeartbeat /\ now' = now
               ELSE /\ \E late \in 0..MaxLate :
                         now' = now + Min(log_interval * Res, remaining) + late
                    /\ UNCHANGED <<pc, calls>>
       ELSE /\ \E late \in 0..MaxLate : now' = end_ + late
            /\ PostHeartbeat

---------------------------------------------------------------------------
(* Dispatch: complete_quest *)

\* get_progress (logic) / the handlers' own reading of the quest (new)
StartWatch ==
    /\ seconds_needed' = quest.target
    /\ seconds_done' = quest.done
    /\ pc' = "watch_loop"
    /\ handler' = Watch
    /\ UNCHANGED <<calls, events, result>>

StartPlay ==
    /\ seconds_needed' = quest.target
    /\ seconds_done' = quest.done
    /\ PostHeartbeat
    /\ handler' = Play
    /\ UNCHANGED <<events, result>>

complete_quest ==
    /\ pc = "dispatch"
    /\ UNCHANGED <<variant, quest, now, completed, progress, interval_, reply_at, end_>>
    /\ IF variant = "logic"
       THEN LET quest_type == determine_quest_type(quest.tasks)
            IN IF quest_type = Unknown \/ quest_type \notin quest_map
               THEN /\ events' = Append(events, <<0, 0>>)
                    /\ result' = "false"
                    /\ pc' = "returned"
                    /\ UNCHANGED <<handler, seconds_needed, seconds_done, calls>>
               ELSE IF quest_type = Watch THEN StartWatch ELSE StartPlay
       ELSE IF supported(quest.tasks) = {}
            THEN /\ result' = "raised"
                 /\ pc' = "raised"
                 /\ UNCHANGED <<handler, seconds_needed, seconds_done, calls, events>>
            ELSE \E task_name \in supported(quest.tasks) :
                   IF task_map(task_name) = Watch THEN StartWatch ELSE StartPlay

\* an `except Exception` that catches the cancellation as well
ExceptCatches_all(exc) == TRUE

\* new_main.py's `except Exception` around the loop bodies and the final heartbeat:
\* it catches a transport failure; asyncio.CancelledError is a BaseException
ExceptCatches(exc) == exc = "transport"

\* the operator's interrupt: asyncio.run cancels the task, and CancelledError is
\* raised in the handler at the await it is suspended on.  logic/quests.py has no
\* handler for it; new_main.py's `except Exception` is asked.
Interrupt ==
    /\ pc \in {"await_video_progress", "watch_sleep", "await_final_heartbeat",
               "await_heartbeat", "play_sleep"}
    /\ result # "cancelled"
    /\ result' = "cancelled"
    /\ IF variant = "new" /\ ExceptCatches("cancelled")
       THEN \* the except branch of the interrupted statement
            \/ /\ pc \in {"await_video_progress", "watch_sleep"}
               /\ pc' = "watch_sleep"
               /\ end_' = now + interval * 2 * Res
               /\ events' = events
            \/ /\ pc = "await_final_heartbeat"
               /\ pc' = "returned"
               /\ end_' = end_
               /\ events' = Append(events, <<seconds_needed, seconds_needed>>)
            \/ /\ pc \in {"await_heartbeat", "play_sleep"}
               /\ pc' = "play_sleep"
               /\ \E backoff \in Uniform(10, 20) : end_' = now + backoff
               /\ events' = events
       ELSE /\ pc' = "cancelled"
            /\ UNCHANGED <<end_, events>>
    /\ UNCHANGED <<variant, quest, handler, now, seconds_needed, seconds_done, completed,
                   progress, interval_, reply_at, calls>>

---------------------------------------------------------------------------
(* The engine alone: one quest handed to complete_quest *)

UIIdle ==
    /\ displayed = 0
    /\ target = 0
    /\ ui_total = 0
    /\ ui_pc = "idle"
    /\ stopped = FALSE

HeadersIdle ==
    /\ SUPER_PROPERTIES = <<>>
    /\ session_headers = <<>>
    /\ rotation_pc = "idle"
    /\ requests = <<>>

HelperIdle ==
    /\ arg = <<>>
    /\ returned = [fn |-> "none", value |-> <<>>]

SupIdle ==
    /\ main_pc = "idle"
    /\ uncompleted_quests = <<>>
    /\ worthy_uncompleted_quests = <<>>
    /\ less_worthy_uncompleted_quuests = <<>>
    /\ jobs = <<>>
    /\ cur = 0
    /\ sem_value = 1
    /\ sem_waiters = <<>>
    /\ remote = <<>>
    /\ expired = {}
    /\ counter = 0
    /\ quests = <<>>
    /\ enrollabe_quests = <<>>
    /\ idx = 0
    /\ all_enrolled = FALSE
    /\ user_statuses = <<>>
    /\ fetches = 0
    /\ enroll_calls = <<>>
    /\ blocked = FALSE
    /\ settled = 0

Init ==
    /\ SupIdle
    /\ UIIdle
    /\ HeadersIdle
    /\ HelperIdle
    /\ variant \in Variants
    /\ quest \in Quests
    /\ pc = "dispatch"
    /\ handler = "none"
    /\ now \in StartElapsed
    /\ seconds_needed = 0
    /\ seconds_done = 0
    /\ completed = FALSE
    /\ progress = 0
    /\ interval_ = 0
    /\ reply_at = 0
    /\ end_ = 0
    /\ calls = <<>>
    /\ events = <<>>
    /\ result = "none"

Next ==
    \/ complete_quest /\ UNCHANGED <<svars, xvars>>
    \/ WatchLoop /\ UNCHANGED <<svars, xvars>>
    \/ VideoProgressReply /\ UNCHANGED <<svars, xvars>>
    \/ WatchWake /\ UNCHANGED <<svars, xvars>>
    \/ FinalHeartbeatReply /\ UNCHANGED <<svars, xvars>>
    \/ HeartbeatReply /\ UNCHANGED <<svars, xvars>>
    \/ PlaySleep /\ UNCHANGED <<svars, xvars>>
    \/ Interrupt /\ UNCHANGED <<svars, xvars>>

Spec == Init /\ [][Next]_vars

---------------------------------------------------------------------------
(* The supervisor: main(), from the catalog fetch to the end of the run *)

\* the quests the remote may list, in the order it lists them: their tasks, the
\* types of their rewards, where expires_at stands when the run starts ("past",
\* "soon": it may pass during the run, "far": it does not) and the user status
\* ("none": no user_status, "enrolled": enrolled_at without completed_at)
Catalog ==
    <<[tasks |-> <<PLAY_ON_DESKTOP>>, rewards |-> <<1>>, expires |-> "far", user_status |-> "enrolled"],
      [tasks |-> <<WATCH_VIDEO>>, rewards |-> <<4>>, expires |-> "soon", user_status |-> "enrolled"],
      [tasks |-> <<STREAM_ON_DESKTOP>>, rewards |-> <<1, 3>>, expires |-> "far", user_status |-> "enrolled"],
      [tasks |-> <<PLAY_ON_DESKTOP>>, rewards |-> <<3>>, expires |-> "far", user_status |-> "none"],
      [tasks |-> <<WATCH_VIDEO>>, rewards |-> <<4>>, expires |-> "past", user_status |-> "enrolled"],
      [tasks |-> <<PLAY_ACTIVITY>>, rewards |-> <<1>>, expires |-> "soon", user_status |-> "none"],
      [tasks |-> <<ACHIEVEMENT_IN_ACTIVITY>>, rewards |-> <<3>>, expires |-> "far", user_status |-> "enrolled"],
      [tasks |-> <<LISTEN_ON_DESKTOP>>, rewards |-> <<1>>, expires |-> "far", user_status |-> "enrolled"],
      [tasks |-> <<WATCH_VIDEO>>, rewards |-> <<3>>, expires |-> "far", user_status |-> "enrolled"],
      [tasks |-> <<PLAY_ON_DESKTOP>>, rewards |-> <<4>>, expires |-> "far", user_status |-> "completed"]>>

\* the place, in Catalog, of the quest whose id is 1248385850622869556
SentinelId == 9

QuestIds == 1..Len(Catalog)

\* filter(pred, quests): the quests of `keep`, in the catalog's order
Filtered(keep) ==
    LET Kept(id) == id \in keep
    IN SelectSeq([i \in QuestIds |-> i], Kept)

\* the sets of quests one run's catalog may list
Listings == {S \in SUBSET QuestIds : Cardinality(S) <= MaxQuests}

\* the listed quests whose expires_at may pass during the run
Soon == {id \in DOMAIN remote : Catalog[id].expires = "soon"}

\* the quests whose enrollment the catalog does not show while the run lasts
Lagging == {6}

\* Filters.Enrollable on a quest of the catalog `snapshot`
Enrollable(id, snapshot, exp) == snapshot[id] = "none" /\ id \notin exp

\* a filter that does not look at expires_at
Completeable_expired(id, snapshot, exp) == id # SentinelId /\ snapshot[id] = "enrolled"

\* a filter that does not look at the id
Completeable_any_id(id, snapshot, exp) == snapshot[id] = "enrolled" /\ id \notin exp

\* Filters.Completeable (and new_main.py's valid_quest) on a quest of `snapshot`:
\* "enrolled" is a user status with enrolled_at and without completed_at
Completeable(id, snapshot, exp) ==
    /\ id # SentinelId
    /\ snapshot[id] = "enrolled"
    /\ id \notin exp

max_retry == 2

\* QuestType.value
TypeValue(t) ==
    CASE t = Unknown -> -1
      [] t = Achievement -> 0
      [] t = Stream -> 1
      [] t = Activiy -> 2
      [] t = Play -> 3
      [] t = Watch -> 4

\* QuestType.__lt__
TypeLt(a, b) == TypeValue(a) < TypeValue(b)

QuestTypeOf(id) == determine_quest_type(Catalog[id].tasks)

\* a list left in the catalog's order
SortByType_unsorted(l) == l

\* list.sort(key=determine_quest_type, reverse=True): stable, highest type first
RECURSIVE SortByType(_)
SortByType(l) ==
    IF l = <<>> THEN <<>>
    ELSE LET front == SortByType(SubSeq(l, 1, Len(l) - 1))
             x == l[Len(l)]
             keep == {i \in 1..Len(front) : ~TypeLt(QuestTypeOf(front[i]), QuestTypeOf(x))}
             n == Cardinality(keep)
         IN SubSeq(front, 1, n) \o <<x>> \o SubSeq(front, n + 1, Len(front))

\* a filter that does not look at expires_at
Worthy_expired(id, exp) ==
    \E i \in 1..Len(Catalog[id].rewards) : Catalog[id].rewards[i] \in {3, 4}

\* Filters.Worthy, evaluated while the quests of `expired` are past expires_at
Worthy(id, exp) ==
    /\ id \notin exp
    /\ \E i \in 1..Len(Catalog[id].rewards) : Catalog[id].rewards[i] \in {3, 4}

NewJob(id, tier) == [quest |-> id, tier |-> tier, st |-> "new", outcome |-> "none", calls |-> 0]

JobsOf(l, tier) == [i \in 1..Len(l) |-> NewJob(l[i], tier)]

\* the two tiers in the reverse order
TierOrder_reversed(worthy, less) == JobsOf(less, "lessWorthy") \o JobsOf(worthy, "worthy")

\* main.py: the two `for ... await wrapper_quest_complete` loops, one after the other
TierOrder(worthy, less) == JobsOf(worthy, "worthy") \o JobsOf(less, "lessWorthy")

\* asyncio.create_task(complete_quest(...)) / process_quest(...) handed to gather
CreateTask(js, k) == [js EXCEPT ![k].st = "created"]

\* a wrapper that hands the job's exception on to main()
WrapperRaises_propagate(outcome) == outcome = "raised"

\* wrapper_quest_complete polls task.done() and never reads the task's result
WrapperRaises(outcome) == FALSE

\* a semaphore that never makes a job wait
Locked_never == FALSE

\* asyncio.Semaphore.locked()
Locked == sem_value = 0 \/ sem_waiters # <<>>

\* whether complete_quest finds a handler for the quest
HasHandler(id) ==
    IF variant = "logic"
    THEN QuestTypeOf(id) \in quest_map
    ELSE supported(Catalog[id].tasks) # {}

\* the handler up to its first await: Play posts a heartbeat at once, Watch posts
\* video-progress or, when the clock does not allow it yet, sleeps a tick
HandlerStart(k) ==
    {[jobs[k] EXCEPT !.st = "calling", !.calls = 1]}
    \cup
    {[jobs[k] EXCEPT !.st = "sleeping"] : x \in {y \in {1} : QuestTypeOf(jobs[k].quest) = Watch}}

\* main.py, lines 383-420: the two tiers, and the first job's task
Partition ==
    /\ main_pc = "filtered"
    /\ variant = "logic"
    /\ \E first \in {expired \cup late : late \in SUBSET Soon} :
       \E second \in {first \cup late : late \in SUBSET Soon} :
         /\ expired' = second
         /\ expired' = second
         /\ LET IsWorthy(id) == Worthy(id, first)
                IsLessWorthy(id) == ~Worthy(id, second)
                worthy == SortByType(SelectSeq(uncompleted_quests, IsWorthy))
                less == SortByType(SelectSeq(uncompleted_quests, IsLessWorthy))
                js == TierOrder(worthy, less)
            IN /\ worthy_uncompleted_quests' = worthy
               /\ less_worthy_uncompleted_quuests' = less
               /\ IF js = <<>>
                  THEN /\ main_pc' = "done"
                       /\ jobs' = js
                       /\ cur' = cur
                  ELSE /\ main_pc' = "wrapper"
                       /\ jobs' = CreateTask(js, 1)
                       /\ cur' = 1
    /\ UNCHANGED <<uncompleted_quests, sem_value, sem_waiters, cvars>>

\* main.py: wrapper_quest_complete sees task.done(), returns, and the loop goes on
WrapperReturn ==
    /\ main_pc = "wrapper"
    /\ jobs[cur].st = "done"
    /\ IF WrapperRaises(jobs[cur].outcome)
       THEN /\ main_pc' = "aborted"
            /\ UNCHANGED <<jobs, cur>>
       ELSE IF cur < Len(jobs)
            THEN /\ jobs' = CreateTask(jobs, cur + 1)
                 /\ cur' = cur + 1
                 /\ main_pc' = main_pc
            ELSE /\ main_pc' = "done"
                 /\ UNCHANGED <<jobs, cur>>
    /\ UNCHANGED <<uncompleted_quests, worthy_uncompleted_quests,
                   less_worthy_uncompleted_quuests, sem_value, sem_waiters>>

\* new_main.py, lines 513-579: sort, one task per quest, gather
Gather ==
    /\ main_pc = "filtered"
    /\ variant = "new"
    /\ LET js == JobsOf(SortByType(uncompleted_quests), "none")
       IN IF js = <<>>
          THEN /\ main_pc' = "done"
               /\ jobs' = js
          ELSE /\ main_pc' = "gather"
               /\ jobs' = [k \in 1..Len(js) |-> [js[k] EXCEPT !.st = "created"]]
    /\ UNCHANGED <<uncompleted_quests, worthy_uncompleted_quests,
                   less_worthy_uncompleted_quuests, cur, sem_value, sem_waiters>>

\* new_main.py: gather returns once every task is done
GatherReturn ==
    /\ main_pc = "gather"
    /\ \A k \in 1..Len(jobs) : jobs[k].st = "done"
    /\ main_pc' = "done"
    /\ UNCHANGED <<uncompleted_quests, worthy_uncompleted_quests,
                   less_worthy_uncompleted_quuests, jobs, cur, sem_value, sem_waiters>>

\* a process_quest that lets complete_quest's exception through to gather
process_quest_uncaught(outcome) == outcome

\* new_main.py: process_quest returns True, or False when complete_quest raised
process_quest(outcome) == IF outcome = "true" THEN "true" ELSE "false"

\* what the job's task ends with: complete_quest's outcome in main.py, what
\* process_quest makes of it in new_main.py
TaskOutcome(outcome) == IF variant = "new" THEN process_quest(outcome) ELSE outcome

\* complete_quest on a quest without a handler: main.py returns False,
\* new_main.py raises NotImplementedError
NoHandlerOutcome == IF variant = "new" THEN "raised" ELSE "false"

\* the task's first run: complete_quest up to its first await
TaskStart(k) ==
    /\ jobs[k].st = "created"
    /\ IF ~HasHandler(jobs[k].quest)
       THEN /\ jobs' = [jobs EXCEPT ![k].st = "done",
                                    ![k].outcome = TaskOutcome(NoHandlerOutcome)]
            /\ UNCHANGED <<sem_value, sem_waiters>>
       ELSE IF variant = "logic"
            THEN /\ \E j \in HandlerStart(k) : jobs' = [jobs EXCEPT ![k] = j]
                 /\ UNCHANGED <<sem_value, sem_waiters>>
            ELSE IF Locked
                 THEN /\ jobs' = [jobs EXCEPT ![k].st = "waiting"]
                      /\ sem_waiters' = Append(sem_waiters, k)
                      /\ sem_value' = sem_value
                 ELSE /\ \E j \in HandlerStart(k) : jobs' = [jobs EXCEPT ![k] = j]
                      /\ sem_value' = sem_value - 1
                      /\ sem_waiters' = sem_waiters
    /\ UNCHANGED <<main_pc, uncompleted_quests, worthy_uncompleted_quests,
                   less_worthy_uncompleted_quuests, cur>>

\* new_main.py: a job woken by the semaphore enters its handler
TaskResume(k) ==
    /\ jobs[k].st = "woken"
    /\ \E j \in HandlerStart(k) : jobs' = [jobs EXCEPT ![k] = j]
    /\ UNCHANGED <<main_pc, uncompleted_quests, worthy_uncompleted_quests,
                   less_worthy_uncompleted_quuests, cur, sem_value, sem_waiters>>

\* the job k leaves its handler with the given outcome; new_main.py releases the
\* semaphore, which hands it to the first job queued
TaskEnds(k, outcome) ==
    LET ended == [jobs EXCEPT ![k].st = "done", ![k].outcome = TaskOutcome(outcome)]
    IN IF variant = "new"
       THEN IF sem_waiters # <<>>
            THEN /\ jobs' = [ended EXCEPT ![Head(sem_waiters)].st = "woken"]
                 /\ sem_waiters' = Tail(sem_waiters)
                 /\ sem_value' = sem_value
            ELSE /\ jobs' = ended
                 /\ sem_value' = sem_value + 1
                 /\ sem_waiters' = sem_waiters
       ELSE /\ jobs' = ended
            /\ UNCHANGED <<sem_value, sem_waiters>>

\* the reply to a job's remote call, or its transport failure
TaskReply(k) ==
    /\ jobs[k].st = "calling"
    /\ \E ok \in BOOLEAN :
         IF ~ok /\ variant = "logic"
         THEN TaskEnds(k, "raised")
         ELSE \/ /\ jobs[k].calls < MaxCalls
                 /\ jobs' = [jobs EXCEPT ![k].st = "sleeping"]
                 /\ UNCHANGED <<sem_value, sem_waiters>>
              \/ /\ ok \/ QuestTypeOf(jobs[k].quest) = Watch
                 /\ TaskEnds(k, "true")
    /\ UNCHANGED <<main_pc, uncompleted_quests, worthy_uncompleted_quests,
                   less_worthy_uncompleted_quuests, cur>>

\* a job's sleep ends and its handler posts the next call
TaskWake(k) ==
    /\ jobs[k].st = "sleeping"
    /\ jobs[k].calls < MaxCalls
    /\ jobs' = [jobs EXCEPT ![k].st = "calling", ![k].calls = @ + 1]
    /\ UNCHANGED <<main_pc, uncompleted_quests, worthy_uncompleted_quests,
                   less_worthy_uncompleted_quuests, cur, sem_value, sem_waiters>>

EngineIdle ==
    /\ quest = [tasks |-> <<>>, target |-> 0, done |-> 0]
    /\ pc = "idle"
    /\ handler = "none"
    /\ now = 0
    /\ seconds_needed = 0
    /\ seconds_done = 0
    /\ completed = FALSE
    /\ progress = 0
    /\ interval_ = 0
    /\ reply_at = 0
    /\ end_ = 0
    /\ calls = <<>>
    /\ events = <<>>
    /\ result = "none"

\* a response that carries the flag and is let through
RaisesBlocked_never(flag) == FALSE

\* get_all_quests: `if blocked := server_response.quest_enrollment_blocked_until: raise`
\* new_main.py: `if quests_response.quest_enrollment_blocked_until: ... return`
RaisesBlocked(flag) == flag

\* a loop that goes on to the completion phase whatever is left to enroll
HasEnrollmentWork_never(enrollable) == FALSE

\* main.py: `if enrollabe_quests:`
HasEnrollmentWork(enrollable) == enrollable # <<>>

\* a pass that goes on to the completion phase after its enrollments
Continue_dispatch(c) == "filtered"

\* `while counter < max_retry:` after a `continue`
Continue(c) == IF c < max_retry THEN "fetch" ELSE "done"

\* the catalog fetch and its reply, up to the next await
Fetch ==
    /\ main_pc = "fetch"
    /\ fetches < MaxFetches
    /\ fetches' = fetches + 1
    /\ \E ok \in BOOLEAN : \E flag \in BOOLEAN :
         IF ~ok
         THEN \* the transport failure ends the run
              /\ main_pc' = "failed"
              /\ UNCHANGED <<uncompleted_quests, quests, enrollabe_quests, idx,
                             all_enrolled, user_statuses, blocked, settled>>
         ELSE /\ blocked' = flag
              /\ IF RaisesBlocked(flag)
                 THEN /\ main_pc' = "failed"
                      /\ UNCHANGED <<uncompleted_quests, quests, enrollabe_quests, idx,
                                     all_enrolled, user_statuses, settled>>
                 ELSE LET IsEnrollable(id) == Enrollable(id, remote, expired)
                          IsCompleteable(id) == Completeable(id, remote, expired)
                          listed == Filtered(DOMAIN remote)
                          enrollable == IF variant = "logic"
                                        THEN SelectSeq(listed, IsEnrollable)
                                        ELSE <<>>
                      IN /\ quests' = remote
                         /\ enrollabe_quests' = enrollable
                         /\ uncompleted_quests' = SelectSeq(listed, IsCompleteable)
                         /\ user_statuses' = <<>>
                         /\ settled' = IF enrollable = <<>> THEN settled + 1 ELSE 0
                         /\ IF variant = "logic" /\ HasEnrollmentWork(enrollable)
                            THEN /\ main_pc' = "enroll"
                                 /\ idx' = 1
                                 /\ all_enrolled' = FALSE
                            ELSE /\ main_pc' = "filtered"
                                 /\ UNCHANGED <<idx, all_enrolled>>
    /\ UNCHANGED <<worthy_uncompleted_quests, less_worthy_uncompleted_quuests, jobs, cur,
                   sem_value, sem_waiters, remote, expired, counter, enroll_calls>>

\* main.py: one turn of `for quest in enrollabe_quests`, and after the last one the
\* counter and the `continue`
Enroll ==
    /\ main_pc = "enroll"
    /\ LET id == enrollabe_quests[idx]
           \* what follows `user_status = await enroll_quest(quest, session)`
           Turn(user_status) ==
               LET flag == IF user_status THEN TRUE ELSE FALSE
                   c == IF idx = Len(enrollabe_quests) /\ ~flag THEN counter + 1 ELSE counter
               IN /\ all_enrolled' = flag
                  /\ user_statuses' = Append(user_statuses, user_status)
                  /\ uncompleted_quests' = IF user_status
                                           THEN Append(uncompleted_quests, id)
                                           ELSE uncompleted_quests
                  /\ counter' = c
                  /\ IF idx < Len(enrollabe_quests)
                     THEN idx' = idx + 1 /\ main_pc' = main_pc
                     ELSE idx' = idx /\ main_pc' = Continue(c)
       IN IF ~Enrollable(id, quests, expired)
          THEN \* enroll_quest returns None without a call
               /\ Turn(FALSE)
               /\ UNCHANGED <<remote, enroll_calls>>
          ELSE /\ enroll_calls' = Append(enroll_calls, id)
               /\ \/ \* the reply carries the user status
                     /\ remote' = IF id \in Lagging THEN remote
                                  ELSE [remote EXCEPT ![id] = "enrolled"]
                     /\ Turn(TRUE)
                  \/ \* the reply carries nothing
                     /\ remote' = remote
                     /\ Turn(FALSE)
                  \/ \* the transport failure ends the run
                     /\ remote' = remote
                     /\ main_pc' = "failed"
                     /\ UNCHANGED <<all_enrolled, user_statuses, uncompleted_quests,
                                    counter, idx>>
    /\ UNCHANGED <<worthy_uncompleted_quests, less_worthy_uncompleted_quuests, jobs, cur,
                   sem_value, sem_waiters, expired, quests, enrollabe_quests, fetches,
                   blocked, settled>>

\* the clock passes the expires_at of a listed quest.  Once the jobs are scheduled
\* no code reads expires_at again, so the clock is followed up to there only.
Expire ==
    /\ main_pc \in {"fetch", "enroll", "filtered"}
    /\ \E id \in Soon \ expired : expired' = expired \cup {id}
    /\ UNCHANGED <<main_pc, uncompleted_quests, worthy_uncompleted_quests,
                   less_worthy_uncompleted_quuests, jobs, cur, sem_value, sem_waiters,
                   cvars>>

InitSup ==
    /\ EngineIdle
    /\ UIIdle
    /\ HeadersIdle
    /\ HelperIdle
    /\ variant \in Variants
    /\ main_pc = "fetch"
    /\ \E listing \in Listings :
         /\ remote = [id \in listing |-> Catalog[id].user_status]
         /\ expired = {id \in listing : Catalog[id].expires = "past"}
    /\ counter = 0
    /\ quests = <<>>
    /\ enrollabe_quests = <<>>
    /\ idx = 0
    /\ all_enrolled = FALSE
    /\ user_statuses = <<>>
    /\ fetches = 0
    /\ enroll_calls = <<>>
    /\ blocked = FALSE
    /\ settled = 0
    /\ uncompleted_quests = <<>>
    /\ worthy_uncompleted_quests = <<>>
    /\ less_worthy_uncompleted_quuests = <<>>
    /\ jobs = <<>>
    /\ cur = 0
    /\ sem_value = 1
    /\ sem_waiters = <<>>

NextSup ==
    \/ Fetch /\ UNCHANGED <<evars, xvars>>
    \/ Enroll /\ UNCHANGED <<evars, xvars>>
    \/ Expire /\ UNCHANGED <<evars, xvars>>
    \/ Partition /\ UNCHANGED <<evars, xvars>>
    \/ WrapperReturn /\ UNCHANGED <<evars, rvars, xvars>>
    \/ Gather /\ UNCHANGED <<evars, rvars, xvars>>
    \/ GatherReturn /\ UNCHANGED <<evars, rvars, xvars>>
    \/ \E k \in 1..Len(jobs) : TaskStart(k) /\ UNCHANGED <<evars, rvars, xvars>>
    \/ \E k \in 1..Len(jobs) : TaskResume(k) /\ UNCHANGED <<evars, rvars, xvars>>
    \/ \E k \in 1..Len(jobs) : TaskReply(k) /\ UNCHANGED <<evars, rvars, xvars>>
    \/ \E k \in 1..Len(jobs) : TaskWake(k) /\ UNCHANGED <<evars, rvars, xvars>>

SpecSup == InitSup /\ [][NextSup]_vars

---------------------------------------------------------------------------
(* Properties of the completion engine, checked under Spec *)

\* control has left the Watch loop by its `while` condition or its break
WatchLoopExited == handler = Watch /\ pc \in {"await_final_heartbeat", "returned"}

LastCall == calls[Len(calls)]

\* C1: in the Watch loop every value sent to video-progress, jitter included, is at
\* most min(target, seconds elapsed since enrollment + slack).
C1_SentWithinElapsed ==
    pc = "await_video_progress" =>
        LastCall.timestamp <= Min(seconds_needed * Res,
                                  (now - enrolled_at) + max_future * Res)

\* C2: once the Watch loop is left without any reply having carried completed_at,
\* exactly one heartbeat has been sent, it carries the target and it is the last
\* call; once it is left after a reply carried completed_at, no heartbeat is sent.
C2_FinalHeartbeat ==
    WatchLoopExited =>
        IF completed
        THEN CallsOf("heartbeat") = {}
        ELSE /\ CallsOf("heartbeat") = {Len(calls)}
             /\ LastCall.timestamp = seconds_needed * Res

C2_Witness ==
    /\ handler = Watch
    /\ pc = "returned"
    /\ ~completed
    /\ Cardinality(CallsOf("video-progress")) >= 2
    /\ LastCall = Heartbeat(seconds_needed * Res)

C4_PlayReturnsOnReply ==
    handler = Play =>
        /\ pc = "returned" =>
              /\ CallsOf("heartbeat") # {}
              /\ progress >= seconds_needed
              /\ reply_at = now
        /\ events # <<>> =>
              IF pc = "returned" /\ variant = "logic"
              THEN /\ Len(events) >= 2
                   /\ events[Len(events) - 1] = <<progress, seconds_needed>>
                   /\ events[Len(events)] = <<seconds_needed, seconds_needed>>
              ELSE events[Len(events)] = <<progress, seconds_needed>>

C4_Witness ==
    /\ handler = Play
    /\ pc = "returned"
    /\ quest.done >= seconds_needed
    /\ Len(calls) >= 2

\* C5: after a reply that does not end the Play loop the interval lies in [30,45] s
\* when the progress is strictly above 0.8 * target and in [55,70] s otherwise, and
\* no heartbeat is posted before that interval has elapsed since the reply.
C5_PlayPacing ==
    handler = Play /\ interval_ # 0 =>
        /\ progress < seconds_needed =>
              IF 5 * progress > 4 * seconds_needed
              THEN 30 * Res <= interval_ /\ interval_ <= 45 * Res
              ELSE 55 * Res <= interval_ /\ interval_ <= 70 * Res
        /\ pc = "await_heartbeat" => now - reply_at >= interval_

C5_Witness ==
    /\ handler = Play
    /\ pc = "await_heartbeat"
    /\ 5 * progress = 4 * seconds_needed
    /\ interval_ = 55 * Res
    /\ now - reply_at = interval_

\* C6: complete_quest on a type without a handler returns false, issues no remote
\* call and emits exactly the one event (0, 0).
NoHandlerType == determine_quest_type(quest.tasks) \in {Unknown, Achievement, Stream, Activiy}

C6_NoHandlerZeroEvent ==
    NoHandlerType /\ pc # "dispatch" =>
        /\ result = "false"
        /\ calls = <<>>
        /\ events = <<<<0, 0>>>>

\* C7: a transport failure inside a Watch or Play loop never leaves the handler.
C7_FailureCaught == handler \in {Watch, Play} => pc # "raised"

---------------------------------------------------------------------------
(* Claims about the supervisor, checked under SpecSup *)

JobIds == 1..Len(jobs)

\* the job's handler has been entered and has not returned or raised
InHandler(k) == jobs[k].st \in {"calling", "sleeping"}

\* the job ended in failure: its task raised, or it returned false
Failed(k) == jobs[k].st = "done" /\ jobs[k].outcome \in {"raised", "false"}

\* C8: a job that raises or returns false never aborts the run: main() is never
\* unwound by a job's failure, and when the run is over every scheduled job, the ones
\* scheduled after a failed job included, has been dispatched and has ended, after
\* at least one remote call of its own protocol loop where its quest has a handler.
C8_FailureDoesNotAbort ==
    /\ main_pc # "aborted"
    /\ main_pc = "done" =>
         \A k \in JobIds :
            /\ jobs[k].st = "done"
            /\ HasHandler(jobs[k].quest) => jobs[k].calls >= 1

C8_Witness ==
    /\ main_pc = "done"
    /\ \E k \in JobIds : \E j \in JobIds :
         /\ k < j
         /\ Failed(k) /\ jobs[k].outcome = "raised"
         /\ jobs[j].outcome = "true"

\* C9: at every instant at most one job is inside its handler: whenever a job has a
\* remote call in flight or sleeps between two calls, every other job has either not
\* entered its handler yet (not started, or queued on the semaphore) or has left it.
C9_OneLoopInFlight ==
    \A j \in JobIds : \A k \in JobIds :
       j # k /\ InHandler(j) => ~InHandler(k) /\ (jobs[k].calls > 0 => jobs[k].st = "done")

C9_Witness ==
    /\ Len(jobs) = MaxQuests
    /\ \E j \in JobIds : \E k \in JobIds :
         /\ jobs[j].st = "calling"
         /\ jobs[k].st = "waiting"

\* C10: no job of the lessWorthy tier is started (its task created) before every
\* job of the worthy tier has ended, by returning or by raising.
C10_WorthyTierFirst ==
    \A k \in JobIds :
       jobs[k].tier = "lessWorthy" /\ jobs[k].st # "new" =>
          \A j \in JobIds : jobs[j].tier = "worthy" => jobs[j].st = "done"

C10_Witness ==
    \E j \in JobIds : \E k \in JobIds :
       /\ jobs[j].tier = "worthy" /\ jobs[j].outcome = "raised"
       /\ jobs[k].tier = "lessWorthy" /\ jobs[k].st = "calling"
       /\ jobs[j].quest = jobs[k].quest

\* the jobs of main.py's two tiers
Tiers == {"worthy", "lessWorthy"}

JobType(k) == QuestTypeOf(jobs[k].quest)

\* C11: within each tier the jobs are dispatched in non-increasing QuestType
\* priority: of two jobs of the same tier, the one scheduled earlier is started
\* first and its type's priority is greater than or equal to the later one's.
C11_TierSortedByType ==
    \A j \in JobIds : \A k \in JobIds :
       j < k /\ jobs[j].tier \in Tiers /\ jobs[j].tier = jobs[k].tier =>
          /\ TypeValue(JobType(j)) >= TypeValue(JobType(k))
          /\ jobs[k].st # "new" => jobs[j].st = "done"

C11_Witness ==
    \E j \in JobIds : \E k \in JobIds :
       /\ j < k /\ jobs[j].tier \in Tiers /\ jobs[j].tier = jobs[k].tier
       /\ TypeValue(JobType(j)) > TypeValue(JobType(k))
       /\ jobs[j].quest > jobs[k].quest
       /\ jobs[k].st = "done"

\* C12: the two tiers partition the Completeable quests of the pass: once the jobs
\* are scheduled, every Completeable quest has exactly one job, whatever the clock
\* read at each of the two evaluations of Filters.Worthy.
C12_TiersPartition ==
    jobs # <<>> =>
       \A i \in 1..Len(uncompleted_quests) :
          Cardinality({k \in JobIds : jobs[k].quest = uncompleted_quests[i]}) = 1

\* the completion phase has been entered: the tiers are about to be computed, or
\* jobs are scheduled
InCompletionPhase == main_pc \in {"filtered", "wrapper", "gather"} \/ jobs # <<>>

\* C13: when a pass of the enrollment loop ends and one of its enrollments has
\* yielded no user status, at whichever position of the list, the retry counter
\* grows by exactly one and the next thing main() does is fetch the catalog again.
C13_FailedEnrollmentCounts ==
    [][main_pc = "enroll" /\ main_pc' \notin {"enroll", "failed"}
         /\ (\E i \in 1..Len(user_statuses') : ~user_statuses'[i])
       => counter' = counter + 1 /\ main_pc' = "fetch"]_vars

\* C14: once the retry counter has reached max_retry the run does not end without
\* a job: if it is over and the last catalog had Completeable quests, jobs were
\* scheduled for them.
C14_RetryThenProceed ==
    main_pc = "done" /\ counter >= max_retry /\ uncompleted_quests # <<>> => jobs # <<>>

\* C15 as claimed: main.py enters the completion phase only after two consecutive
\* passes that each found nothing to enroll.
C15_TwoSettledPasses == variant = "logic" /\ InCompletionPhase => settled >= 2

\* C15 amended: main.py enters the completion phase only in a pass that found
\* nothing to enroll, and the first such pass is enough.
C15_OneSettledPass ==
    variant = "logic" /\ InCompletionPhase => settled = 1 /\ enrollabe_quests = <<>>

C15_Witness ==
    /\ variant = "logic"
    /\ main_pc = "wrapper"
    /\ fetches = 2
    /\ enroll_calls # <<>>
    /\ settled = 1

\* C16: once a catalog response has carried the account-blocked flag the run is
\* over, as failed: main() issues nothing more, and no completion job exists.
C16_BlockedEndsRun == blocked => main_pc = "failed" /\ jobs = <<>>

C16_Witness ==
    /\ blocked
    /\ main_pc = "failed"
    /\ fetches = 2
    /\ enroll_calls # <<>>

\* C17: a quest that has stopped being Completeable by the time its job is
\* dispatched (here: its expires_at has passed since the filter) is skipped: its
\* job issues no remote call.
C17_StaleJobSkipped ==
    \A k \in JobIds : jobs[k].quest \in expired => jobs[k].calls = 0

\* the catalog of the end-to-end scenario: an expired Watch quest (5), an
\* enrollable Play quest without user status (4) and a Completeable Watch quest (2)
\* that does not expire during the run
Scenario == variant = "logic" /\ DOMAIN remote = {2, 4, 5} /\ expired = {5}

\* a run in which no enrollment and no job failed
CleanRun ==
    /\ main_pc = "done"
    /\ counter = 0
    /\ \A k \in JobIds : jobs[k].outcome = "true"

successful == Cardinality({k \in JobIds : jobs[k].outcome = "true"})
failed == Cardinality({k \in JobIds : jobs[k].outcome = "false"})

\* C19: when new_main.py reaches its tally every dispatched quest is counted
\* exactly once, as successful or as failed: the two counts add up to the number
\* of quests attempted.
C19_TallyAddsUp ==
    variant = "new" /\ main_pc = "done" => successful + failed = Len(jobs)

C19_Witness ==
    /\ variant = "new"
    /\ main_pc = "done"
    /\ successful >= 1
    /\ failed >= 1

---------------------------------------------------------------------------
(* The interrupt, checked under Spec *)

\* C20: after an interrupt delivered at a suspension point of a protocol loop the
\* loop has stopped: the handler issues no further remote call, and in particular
\* the Watch loop does not go on to send its final heartbeat.
C20_NoCallAfterInterrupt == [][result = "cancelled" => calls' = calls]_vars

C20_Witness ==
    /\ pc = "cancelled"
    /\ handler = Watch
    /\ ~completed
    /\ CallsOf("video-progress") # {}
    /\ CallsOf("heartbeat") = {}

---------------------------------------------------------------------------
(* The progress display of one job: the callback the handler reports to *)

\* the job's target, and so the bar's total
MaxTotal == 20

\* the bar's value when the job is created
StartDone == {0, 3}

Max(a, b) == IF a > b THEN a ELSE b

\* one turn of update's loop, eased
Step_eased(prev_value, done) == prev_value + Max(1, (done - prev_value) \div 8)

\* one turn of update's loop: prev_value += 1
Step(prev_value, done) == prev_value + 1

\* main.py: updater sets the bar to the event
updater(done) ==
    /\ displayed' = done
    /\ ui_pc' = "idle"

\* new_main.py: update enters its loop when the bar is behind the event
update(done) ==
    /\ displayed' = displayed
    /\ ui_pc' = IF displayed < done THEN "stepping" ELSE "idle"

\* The handler emits a progress event (done, total); the events of one job
\* carry the job's target as total and a done that does not decrease.
progress_callback ==
    /\ ui_pc = "idle"
    /\ \E done \in target..MaxTotal + 1 :
         /\ target' = done
         /\ IF variant = "logic" THEN updater(done) ELSE update(done)
    /\ UNCHANGED <<ui_total, stopped>>

\* new_main.py: one turn of update's loop, up to its sleep or its break
update_loop ==
    /\ ui_pc = "stepping"
    /\ displayed' = Step(displayed, target)
    /\ IF target >= ui_total
       THEN stopped' = TRUE /\ ui_pc' = "idle"
       ELSE stopped' = stopped
            /\ ui_pc' = IF displayed' < target THEN "stepping" ELSE "idle"
    /\ UNCHANGED <<target, ui_total>>

InitUI ==
    /\ EngineIdle
    /\ SupIdle
    /\ HeadersIdle
    /\ HelperIdle
    /\ variant \in Variants
    /\ displayed \in StartDone
    /\ target = displayed
    /\ ui_total = MaxTotal
    /\ ui_pc = "idle"
    /\ stopped = FALSE

NextUI ==
    \/ progress_callback /\ UNCHANGED <<evars, svars, hvars, fvars>>
    \/ update_loop /\ UNCHANGED <<evars, svars, hvars, fvars>>

SpecUI == InitUI /\ [][NextUI]_vars

---------------------------------------------------------------------------
(* Properties of the progress display, checked under SpecUI *)

\* C21: the displayed value of a job never exceeds the done value of the last
\* progress event, and once the callback has returned it is equal to it, a
\* last event with done >= total after a large jump included
C21_DisplayReachesTarget ==
    /\ displayed <= target
    /\ ui_pc = "idle" => displayed = target

\* C22 as stated: each turn of the smoothing loop moves the displayed value
\* toward the target by max(1, (target - displayed) / 8)
C22_EasedStep ==
    [][ui_pc = "stepping" =>
         8 * (displayed' - displayed) = Max(8, target - displayed)]_vars

\* C22: each turn of the smoothing loop moves the displayed value toward the
\* target by exactly 1, whatever the distance: unit steps, not shrinking
\* steps and not one jump
C22_UnitStep ==
    [][ui_pc = "stepping" =>
         displayed' = displayed + 1 /\ displayed' <= target]_vars

\* a turn of the loop was taken with the target 16 or more ahead
C22_Witness ==
    /\ ui_pc = "stepping"
    /\ displayed \notin StartDone
    /\ target - displayed >= 16

---------------------------------------------------------------------------
(* The shared request headers: change_heartbeat_id and the protocol loops *)

MaxRotations == 3  \* rotations of the heartbeat session in one run
MaxPosts == 3      \* remote calls issued in one run

\* the build numbers the front page can carry
BuildNumbers == {1, 2}

\* dump_json, on the two super-properties that change at run time
dump_json(d) == <<"client_build_number", d.client_build_number,
                  "client_heartbeat_session", d.client_heartbeat_session>>

base64_encode(buf) == <<"base64", buf>>

\* the statements of change_heartbeat_id at which the coroutine is suspended,
\* were each statement an await
Yields_all(statement) == TRUE

\* the statements of change_heartbeat_id at which the coroutine is suspended
Yields(statement) == statement = "sleep"

\* The timer of change_heartbeat_id fires: the coroutine runs up to its next
\* suspension.  client_heartbeat_session counts the ids drawn with uuid4.
change_heartbeat_id ==
    IF rotation_pc = "mutated"
    THEN /\ session_headers' = base64_encode(dump_json(SUPER_PROPERTIES))
         /\ rotation_pc' = "sleep"
         /\ UNCHANGED <<SUPER_PROPERTIES, requests>>
    ELSE /\ rotation_pc = "sleep"
         /\ SUPER_PROPERTIES.client_heartbeat_session < MaxRotations
         /\ SUPER_PROPERTIES' =
              [SUPER_PROPERTIES EXCEPT !.client_heartbeat_session = @ + 1]
         /\ IF Yields("mutate")
            THEN rotation_pc' = "mutated" /\ session_headers' = session_headers
            ELSE /\ session_headers' = base64_encode(dump_json(SUPER_PROPERTIES'))
                 /\ rotation_pc' = "sleep"
         /\ UNCHANGED requests

\* A protocol loop issues a remote call: session.post reads the session's
\* headers.  `props` records the super-properties at that instant.
Post ==
    /\ rotation_pc \in {"sleep", "mutated"}
    /\ Len(requests) < MaxPosts
    /\ requests' = Append(requests, [header |-> session_headers,
                                      props |-> SUPER_PROPERTIES])
    /\ UNCHANGED <<SUPER_PROPERTIES, session_headers, rotation_pc>>

\* The state once main has set the session's headers: main.py starts the
\* rotation after update_headers and the rotation sleeps first; new_main.py
\* starts it before and the rotation has run once.
InitHeaders ==
    /\ EngineIdle
    /\ SupIdle
    /\ UIIdle
    /\ HelperIdle
    /\ variant \in Variants
    /\ \E b \in BuildNumbers :
         SUPER_PROPERTIES =
            [client_build_number |-> b,
             client_heartbeat_session |-> IF variant = "logic" THEN 0 ELSE 1]
    /\ session_headers = base64_encode(dump_json(SUPER_PROPERTIES))
    /\ rotation_pc = "sleep"
    /\ requests = <<>>

NextHeaders ==
    \/ change_heartbeat_id /\ UNCHANGED <<evars, svars, uvars, fvars>>
    \/ Post /\ UNCHANGED <<evars, svars, uvars, fvars>>

SpecHeaders == InitHeaders /\ [][NextHeaders]_vars

---------------------------------------------------------------------------
(* Properties of the shared headers, checked under SpecHeaders *)

\* C23: the rotation is atomic for the protocol loops: every remote call
\* carries the X-Super-Properties header that encodes the super-properties as
\* they are when the call is issued, so no call falls between the mutation
\* of the super-properties and the publication of the header
C23_RotationAtomic ==
    \A i \in 1..Len(requests) :
        requests[i].header = base64_encode(dump_json(requests[i].props))

\* calls were issued on both sides of a rotation
C23_Witness ==
    \E i, j \in 1..Len(requests) :
        /\ i < j
        /\ requests[i].props.client_heartbeat_session
             < requests[j].props.client_heartbeat_session

---------------------------------------------------------------------------
(* Order of the progress events of one Watch run, checked under Spec *)

\* the done values of two consecutive progress events
ConsecutiveDone == {<<events[i][1], events[i + 1][1]>> : i \in 1..(Len(events) - 1)}

\* C24 as stated: within one Watch run the events carry strictly increasing
\* done values, ticks without a remote call and the terminal event included
C24_StrictlyIncreasing == handler = Watch => \A p \in ConsecutiveDone : p[1] < p[2]

\* C24: within one Watch run no event carries a smaller done value than the
\* event before it
C24_NonDecreasing == handler = Watch => \A p \in ConsecutiveDone : p[1] <= p[2]

\* a Watch run that returned after events that advanced and events that did not
C24_Witness ==
    /\ handler = Watch
    /\ result = "true"
    /\ \E p \in ConsecutiveDone : p[1] < p[2]
    /\ \E p \in ConsecutiveDone : p[1] = p[2]

---------------------------------------------------------------------------
(* The Completeable filter and the quests handed to a handler, under SpecSup *)

\* the listed quests that had enrolled_at and no completed_at in the last
\* catalog, the quest with the sentinel id left out
EnrolledNotCompleted ==
    {id \in DOMAIN quests : quests[id] = "enrolled" /\ id # SentinelId}

\* C30: the Completeable filter keeps a quest exactly when the catalog gives it
\* an enrolled_at and no completed_at, it is not expired when filtered and its
\* id is not the sentinel id; and every quest a job is made for was kept by
\* the filter.  (Once filtered a quest may still expire: those not expired
\* now were not expired then, those past expires_at from the start were.)
C30_CompleteableOnly ==
    LET kept == {uncompleted_quests[i] : i \in 1..Len(uncompleted_quests)}
    IN /\ main_pc = "filtered" =>
            /\ EnrolledNotCompleted \ expired \subseteq kept
            /\ kept \subseteq {id \in EnrolledNotCompleted : Catalog[id].expires # "past"}
       /\ \A k \in 1..Len(jobs) :
            /\ jobs[k].quest \in kept
            /\ jobs[k].quest \in EnrolledNotCompleted
            /\ Catalog[jobs[k].quest].expires # "past"

\* a job ran to its end in a run whose catalog listed the sentinel quest and a
\* completed quest
C30_Witness ==
    /\ SentinelId \in DOMAIN quests
    /\ \E id \in DOMAIN quests : quests[id] = "completed"
    /\ \E k \in 1..Len(jobs) : jobs[k].st = "done" /\ jobs[k].calls > 0

---------------------------------------------------------------------------
(* The Worthy filter, under SpecSup: main.py applies it to the kept quests *)

\* the reward types of a quest
RewardTypes(id) == {Catalog[id].rewards[i] : i \in 1..Len(Catalog[id].rewards)}

\* C29: when main.py computes its tiers, a kept quest is in the worthy tier only
\* if it is not expired and one of its rewards has type 3 or 4, and it is in
\* the worthy tier if one of its rewards has type 3 or 4 and it is not expired
\* when the tiers are done; no expired quest is worthy
C29_WorthyFilter ==
    [][variant = "logic" /\ main_pc = "filtered" /\ main_pc' # "filtered" =>
         LET worthy == {worthy_uncompleted_quests'[i] :
                           i \in 1..Len(worthy_uncompleted_quests')}
         IN \A i \in 1..Len(uncompleted_quests) :
               LET id == uncompleted_quests[i]
                   rewarded == RewardTypes(id) \cap {3, 4} # {}
               IN /\ id \in worthy => rewarded /\ id \notin expired
                  /\ rewarded /\ id \notin expired' => id \in worthy]_vars

\* tiers made of a rewarded quest that is worthy, a rewarded quest that expired
\* and is not, and a quest without such a reward
C29_Witness ==
    LET worthy == {worthy_uncompleted_quests[i] : i \in 1..Len(worthy_uncompleted_quests)}
        less == {less_worthy_uncompleted_quuests[i] :
                    i \in 1..Len(less_worthy_uncompleted_quuests)}
    IN /\ variant = "logic"
       /\ \E id \in worthy : RewardTypes(id) \cap {3, 4} # {} /\ id \notin expired
       /\ \E id \in less \ worthy : RewardTypes(id) \cap {3, 4} # {} /\ id \in expired
       /\ \E id \in less : RewardTypes(id) \cap {3, 4} = {}

---------------------------------------------------------------------------
(* The helpers that read a quest: its type and its progress *)

MaxTasks == 2  \* tasks of one quest

\* task names in other spellings, and names close to the special case
HelperTaskNames ==
    TaskNames \cup {<<"Play", "Activity">>, <<"play", "activity">>, <<"Watch", "Video">>,
                    <<"PLAY">>, <<"PLAY", "ACTIVITY", "V2">>}

\* the targets and the recorded values of the quests the progress is read of
HelperTargets == {10, 12}
HelperValues == {0, 5, 12}

\* the lists of at most n tasks of S, no two of the same name: tasks is a dict
TaskLists(S, n) ==
    {l \in UNION {[1..k -> S] : k \in 0..n} :
        \A i, j \in 1..Len(l) : i # j => l[i].name # l[j].name}

\* the lists of at most n progress entries of S, no two for the same task
ProgressLists(S, n) ==
    {l \in UNION {[1..k -> S] : k \in 0..n} :
        \A i, j \in 1..Len(l) : i # j => l[i].event_name # l[j].event_name}

\* the quests whose type is asked for: any task names, in any order
ClassifyQuests ==
    {[tasks |-> ts, has_status |-> FALSE, progress |-> <<>>] :
        ts \in TaskLists({[name |-> n, target |-> 10] : n \in HelperTaskNames}, MaxTasks)}

\* the quests whose progress is asked for: at least one task, and a user status
\* whose progress entries are entries of the quest's tasks, in their own order
ProgressQuests ==
    LET names == {WATCH_VIDEO, WATCH_VIDEO_ON_MOBILE, PLAY_ON_DESKTOP}
        tasks == TaskLists({[name |-> n, target |-> t] : n \in names, t \in HelperTargets},
                           MaxTasks) \ {<<>>}
        Entries(ts) == {[event_name |-> ts[i].name, value |-> v] :
                           i \in 1..Len(ts), v \in HelperValues}
    IN UNION {{[tasks |-> ts, has_status |-> FALSE, progress |-> <<>>]}
              \cup {[tasks |-> ts, has_status |-> TRUE, progress |-> p] :
                       p \in ProgressLists(Entries(ts), MaxTasks)} : ts \in tasks}

\* tasks.keys(), in iteration order
tasks_names(q) == [i \in 1..Len(q.tasks) |-> q.tasks[i].name]

\* QuestType.from_quest, on the quest's task names in iteration order
from_quest(tasks) ==
    IF \E i \in 1..Len(tasks) : LowerName(tasks[i]) = <<"play", "activity">>
    THEN Activiy
    ELSE LET name == IF tasks = <<>> THEN "Unknown" ELSE tasks[1][1]
             lower == IF name = "Unknown" THEN "unknown" ELSE Lower(name)
         IN CASE lower = "watch" -> Watch
              [] lower = "play" -> Play
              [] lower = "stream" -> Stream
              [] lower = "achievement" -> Achievement
              [] lower = "unknown" -> Unknown
              [] OTHER -> Unknown

\* max with ties going to the last
max_last(values) ==
    CHOOSE i \in 1..Len(values) :
        /\ \A j \in 1..Len(values) : values[j] <= values[i]
        /\ \A j \in (i + 1)..Len(values) : values[j] < values[i]

\* max(..., key=...): the place of the first greatest value
max(values) ==
    CHOOSE i \in 1..Len(values) :
        /\ \A j \in 1..Len(values) : values[j] <= values[i]
        /\ \A j \in 1..(i - 1) : values[j] < values[i]

\* the first one, whatever the values
min_first(values) == 1

\* min(..., key=...): the place of the first least value
min(values) ==
    CHOOSE i \in 1..Len(values) :
        /\ \A j \in 1..Len(values) : values[j] >= values[i]
        /\ \A j \in 1..(i - 1) : values[j] > values[i]

\* get_progress (get_quest_progress): <<task_name, done, total>>
get_progress(q) ==
    IF q.has_status /\ Len(q.progress) > 0
    THEN LET i == max([j \in 1..Len(q.progress) |-> q.progress[j].value])
             task_name == q.progress[i].event_name
             task == CHOOSE t \in 1..Len(q.tasks) : q.tasks[t].name = task_name
         IN <<task_name, q.progress[i].value, q.tasks[task].target>>
    ELSE LET i == min([j \in 1..Len(q.tasks) |-> q.tasks[j].target])
         IN <<q.tasks[i].name, 0, q.tasks[i].target>>

\* the quests the filters are applied to; instants are relative to `now`, a
\* rewards_expire_at of 0 is a missing one, and a quest without user status
\* has none of its fields
FilterQuests ==
    {[tasks |-> <<[name |-> WATCH_VIDEO, target |-> 10]>>, progress |-> <<>>,
      id |-> id, has_status |-> st[1], enrolled_at |-> st[2], completed_at |-> st[3],
      claimed_at |-> st[4], expires_at |-> e, rewards_expire_at |-> r, rewards |-> rw] :
        id \in {1, SentinelId},
        st \in {<<FALSE, FALSE, FALSE, FALSE>>}
               \cup ({TRUE} \X BOOLEAN \X BOOLEAN \X BOOLEAN),
        e \in {-1, 0, 1}, r \in {-1, 0, 1}, rw \in {<<1>>, <<3>>, <<1, 4>>}}

\* time_in_past / in_past: `time_curr() > datetime.fromisoformat(utc_iso)`
time_in_past(utc_iso) == now > utc_iso

Filters_NotExpired(q) == ~time_in_past(q.expires_at)

Filters_Enrollable(q) == ~q.has_status /\ ~time_in_past(q.expires_at)

\* a filter that does not look at completed_at
Filters_Completeable_completed(q) ==
    /\ q.id # SentinelId
    /\ q.has_status
    /\ q.enrolled_at
    /\ ~time_in_past(q.expires_at)

Filters_Completeable(q) ==
    /\ q.id # SentinelId
    /\ q.has_status
    /\ q.enrolled_at
    /\ ~q.completed_at
    /\ ~time_in_past(q.expires_at)

\* Filters.Claimable of logic/quests.py
Filters_Claimable(q) ==
    /\ q.has_status
    /\ ~time_in_past(q.expires_at)
    /\ q.completed_at
    /\ q.rewards_expire_at # 0
    /\ ~time_in_past(q.rewards_expire_at)

\* Filters.Claimable of logic/objects.py: claimed_at is looked at too
Filters_Claimable_objects(q) == Filters_Claimable(q) /\ ~q.claimed_at

Filters_Worthy(q) ==
    /\ ~time_in_past(q.expires_at)
    /\ \E i \in 1..Len(q.rewards) : q.rewards[i] \in {3, 4}

\* the quests a helper is applied to
HelperQuests == ClassifyQuests \cup ProgressQuests \cup FilterQuests

\* the lists of distinct ids among 1..MaxQuests
IdLists ==
    {l \in UNION {[1..k -> 1..MaxQuests] : k \in 0..MaxQuests} :
        \A i, j \in 1..Len(l) : i # j => l[i] # l[j]}

\* the catalog responses: the ids of `quests` and of `excluded_quests`
Responses == {[quests |-> qs, excluded_quests |-> ex] : qs \in IdLists, ex \in IdLists}

\* filter(lambda x: x.id not in excluded_quests, quests) consumed by list():
\* excluded_quests is a map object, an iterator, and `in` consumes it up to
\* the first match, or to its end.  `rest` is what the iterator still holds.
RECURSIVE FilterExcluded(_, _)
FilterExcluded(qs, rest) ==
    IF qs = <<>> THEN <<>>
    ELSE LET found == {j \in 1..Len(rest) : rest[j] = Head(qs)}
         IN IF found = {}
            THEN <<Head(qs)>> \o FilterExcluded(Tail(qs), <<>>)
            ELSE LET j == CHOOSE m \in found : \A n \in found : m <= n
                 IN FilterExcluded(Tail(qs), SubSeq(rest, j + 1, Len(rest)))

\* get_all_quests (get_quests), on a response that is not blocked
get_all_quests(server_response) ==
    FilterExcluded(server_response.quests, server_response.excluded_quests)

GetAllQuests ==
    /\ returned.fn = "none"
    /\ arg \in Responses
    /\ returned' = [fn |-> "get_all_quests", value |-> get_all_quests(arg)]
    /\ arg' = arg

\* every filter applied to one quest at one instant
ApplyFilters ==
    /\ returned.fn = "none"
    /\ arg \in FilterQuests
    /\ returned' = [fn |-> "Filters",
                    value |-> [NotExpired |-> Filters_NotExpired(arg),
                               Enrollable |-> Filters_Enrollable(arg),
                               Completeable |-> Filters_Completeable(arg),
                               Claimable |-> Filters_Claimable(arg),
                               Claimable_objects |-> Filters_Claimable_objects(arg),
                               Worthy |-> Filters_Worthy(arg)]]
    /\ arg' = arg

DetermineQuestType ==
    /\ returned.fn = "none"
    /\ arg \in HelperQuests
    /\ returned' = [fn |-> "determine_quest_type",
                    value |-> determine_quest_type(tasks_names(arg))]
    /\ arg' = arg

FromQuest ==
    /\ returned.fn = "none"
    /\ arg \in HelperQuests
    /\ returned' = [fn |-> "from_quest", value |-> from_quest(tasks_names(arg))]
    /\ arg' = arg

GetProgress ==
    /\ returned.fn = "none"
    /\ arg \in ProgressQuests
    /\ returned' = [fn |-> "get_progress", value |-> get_progress(arg)]
    /\ arg' = arg

InitHelpers ==
    /\ EngineIdle
    /\ SupIdle
    /\ UIIdle
    /\ HeadersIdle
    /\ variant = "logic"
    /\ arg \in HelperQuests \cup Responses
    /\ returned = [fn |-> "none", value |-> <<>>]

NextHelpers ==
    \/ DetermineQuestType /\ UNCHANGED <<evars, svars, uvars, hvars>>
    \/ FromQuest /\ UNCHANGED <<evars, svars, uvars, hvars>>
    \/ GetProgress /\ UNCHANGED <<evars, svars, uvars, hvars>>
    \/ ApplyFilters /\ UNCHANGED <<evars, svars, uvars, hvars>>
    \/ GetAllQuests /\ UNCHANGED <<evars, svars, uvars, hvars>>

SpecHelpers == InitHelpers /\ [][NextHelpers]_vars

---------------------------------------------------------------------------
(* Properties of the helpers, checked under SpecHelpers *)

Classified == returned.fn \in {"determine_quest_type", "from_quest"}

\* a task name is play_activity in some spelling
HasPlayActivity ==
    \E i \in 1..Len(arg.tasks) :
        arg.tasks[i].name \in {PLAY_ACTIVITY, <<"Play", "Activity">>, <<"play", "activity">>}

\* C25: the type is Activity whenever one of the task names is play_activity,
\* in whatever spelling, whatever the other names and their order
C25_PlayActivityWins == Classified /\ HasPlayActivity => returned.value = Activiy

\* play_activity in mixed case after a watch_video task
C25_Witness ==
    /\ Classified
    /\ Len(arg.tasks) = 2
    /\ arg.tasks[1].name = WATCH_VIDEO
    /\ arg.tasks[2].name = <<"Play", "Activity">>
    /\ returned.value = Activiy

\* C26: without a play_activity task the type depends on the first task name
\* only: its first segment, lowercased, mapped by watch, play, stream and
\* achievement, anything else being Unknown; and no task at all gives Unknown
C26_FirstNameDecides ==
    Classified /\ ~HasPlayActivity =>
        IF arg.tasks = <<>>
        THEN returned.value = Unknown
        ELSE LET segment == arg.tasks[1].name[1]
             IN returned.value =
                  CASE segment \in {"WATCH", "Watch"} -> Watch
                    [] segment \in {"PLAY", "Play"} -> Play
                    [] segment = "STREAM" -> Stream
                    [] segment = "ACHIEVEMENT" -> Achievement
                    [] OTHER -> Unknown

ProgressRead == returned.fn = "get_progress"

\* C27: with recorded progress, the task returned is the one of the greatest
\* recorded value, the first of them in iteration order; done is that value
\* and total is that task's target
C27_GreatestRecorded ==
    ProgressRead /\ arg.has_status /\ arg.progress # <<>> =>
        \E i \in 1..Len(arg.progress) :
            /\ arg.progress[i].event_name = returned.value[1]
            /\ arg.progress[i].value = returned.value[2]
            /\ \A j \in 1..Len(arg.progress) : arg.progress[j].value <= returned.value[2]
            /\ \A j \in 1..(i - 1) : arg.progress[j].value < returned.value[2]
            /\ \E t \in 1..Len(arg.tasks) :
                 /\ arg.tasks[t].name = returned.value[1]
                 /\ arg.tasks[t].target = returned.value[3]

\* two entries of the same value, the first one for the quest's second task
C27_Witness ==
    /\ ProgressRead
    /\ Len(arg.progress) = 2
    /\ arg.progress[1].value = arg.progress[2].value
    /\ arg.progress[1].value > 0
    /\ arg.tasks[2].name = arg.progress[1].event_name
    /\ arg.tasks[1].target # arg.tasks[2].target
    /\ returned.value[1] = arg.progress[1].event_name

\* C28: without a user status, or with no recorded progress, done is 0 and
\* total is the least target of all the tasks, not the first task's
C28_LeastTarget ==
    ProgressRead /\ (~arg.has_status \/ arg.progress = <<>>) =>
        /\ returned.value[2] = 0
        /\ \A t \in 1..Len(arg.tasks) : returned.value[3] <= arg.tasks[t].target
        /\ \E t \in 1..Len(arg.tasks) :
             /\ arg.tasks[t].target = returned.value[3]
             /\ arg.tasks[t].name = returned.value[1]

\* a user status without progress, and a first task that is not the least
C28_Witness ==
    /\ ProgressRead
    /\ arg.has_status
    /\ arg.progress = <<>>
    /\ arg.tasks[1].target > returned.value[3]

---------------------------------------------------------------------------
(* The catalog the jobs are made from, under SpecSup *)

\* C31: main.py never completes a stale quest set: when jobs exist, the last
\* catalog fetched had nothing Enrollable, no enrollment was attempted since
\* that fetch, the catalog still is what the remote lists, and every job's
\* quest is a quest that catalog lists as enrolled and the filter kept
C31_FreshCatalog ==
    variant = "logic" /\ jobs # <<>> =>
        /\ enrollabe_quests = <<>>
        /\ user_statuses = <<>>
        /\ quests = remote
        /\ \A k \in 1..Len(jobs) :
             /\ jobs[k].quest \in DOMAIN quests
             /\ quests[jobs[k].quest] = "enrolled"
             /\ \E i \in 1..Len(uncompleted_quests) : uncompleted_quests[i] = jobs[k].quest

\* a job ran for a quest that an earlier pass of the same run enrolled
C31_Witness ==
    /\ variant = "logic"
    /\ fetches >= 2
    /\ \E k \in 1..Len(jobs) :
         /\ jobs[k].st = "done"
         /\ \E i \in 1..Len(enroll_calls) : enroll_calls[i] = jobs[k].quest

---------------------------------------------------------------------------
(* Termination of the reconciliation loop, under SpecSup *)

\* the listed quests the catalog gave no user status at the start of the run
Unenrolled == {id \in DOMAIN remote : Catalog[id].user_status = "none"}

\* C32: the number of catalog fetches of one run is bounded whatever the remote
\* does: at most one fetch for each failed pass the retry count allows, one
\* for each listed quest a pass may enroll, and the fetch that proceeds
C32_FetchesBounded == fetches <= max_retry + Cardinality(Unenrolled) + 1

---------------------------------------------------------------------------
(* The filters at one instant, under SpecHelpers *)

Filtered_ == returned.fn = "Filters"

\* C33: at one instant no quest satisfies two of Enrollable, Completeable and
\* Claimable, and a quest past its expires_at satisfies none of NotExpired,
\* Enrollable, Completeable, Claimable and Worthy
C33_FiltersExclusive ==
    Filtered_ =>
        LET f == returned.value
            claimable == f.Claimable \/ f.Claimable_objects
        IN /\ ~(f.Enrollable /\ f.Completeable)
           /\ ~(f.Enrollable /\ claimable)
           /\ ~(f.Completeable /\ claimable)
           /\ arg.expires_at < now =>
                ~(f.NotExpired \/ f.Enrollable \/ f.Completeable \/ claimable \/ f.Worthy)

\* a quest that is enrolled, completed and not yet claimed: Claimable only
C33_Witness ==
    /\ Filtered_
    /\ arg.enrolled_at
    /\ arg.completed_at
    /\ returned.value.Claimable_objects
    /\ ~returned.value.Completeable
    /\ returned.value.Worthy

---------------------------------------------------------------------------
(* Length of a Watch run, under Spec *)

\* ceil(a / b) for a >= 0 and b > 0
Ceil(a, b) == (a + b - 1) \div b

VideoProgressReturns == pc = "await_video_progress" /\ events' # events

---------------------------------------------------------------------------
(* The catalog without the excluded quests, under SpecHelpers *)

\* C35: the catalog get_all_quests returns holds no quest whose id is listed
\* in the response's excluded_quests, wherever the quest stands in the
\* response and however many quests are consumed before it
C35_NoExcludedQuest ==
    returned.fn = "get_all_quests" =>
        \A i \in 1..Len(returned.value) :
            \A j \in 1..Len(arg.excluded_quests) :
                returned.value[i] # arg.excluded_quests[j]

---------------------------------------------------------------------------
(* A failed tick of new_main.py's Watch loop, under Spec *)

\* a step in which a video-progress call fails: the handler sleeps 2 * interval
FailedTick ==
    /\ pc = "await_video_progress"
    /\ pc' = "watch_sleep"
    /\ end_' = now' + 2 * interval * Res

\* a step in which a call is issued after a call whose value the local counter
\* has not taken: the call before it failed
Retry ==
    /\ pc = "watch_loop"
    /\ pc' = "await_video_progress"
    /\ calls # <<>>
    /\ calls[Len(calls)].timestamp \div Res > seconds_done

\* C36: in new_main.py a failed video-progress call leaves seconds_done and
\* completed as they were and emits no progress event, and the next call asks
\* for the same value, up to its jitter
C36_FailedTickFrame ==
    [][variant = "new" /\ handler = Watch =>
          /\ FailedTick =>
                /\ seconds_done' = seconds_done
                /\ completed' = completed
                /\ events' = events
          /\ Retry =>
                calls'[Len(calls')].timestamp \div Res
                    = calls[Len(calls)].timestamp \div Res]_vars

\* a call was issued again after a failure, and then returned
C36_Witness ==
    /\ variant = "new"
    /\ handler = Watch
    /\ \E i \in 1..(Len(calls) - 1) :
         /\ calls[i].kind = "video-progress"
         /\ calls[i + 1].kind = "video-progress"
         /\ calls[i].timestamp \div Res = calls[i + 1].timestamp \div Res
    /\ events # <<>>

---------------------------------------------------------------------------
(* The last progress event of a handler that returned true, under Spec *)

\* C37: when a Watch or Play handler has returned true, the last progress
\* event it emitted is (total, total)
C37_LastEventIsTotal ==
    handler \in {Watch, Play} /\ pc = "returned" /\ result = "true" =>
        /\ events # <<>>
        /\ events[Len(events)] = <<seconds_needed, seconds_needed>>

---------------------------------------------------------------------------
(* The result of the Watch handler in its two terminal states, under Spec *)

\* the remote confirmed completion
Completed == handler = Watch /\ pc = "returned" /\ completed

\* the remote never confirmed and the forced final heartbeat was sent
Abandoned ==
    /\ handler = Watch
    /\ pc = "returned"
    /\ ~completed
    /\ calls # <<>>
    /\ calls[Len(calls)] = Heartbeat(seconds_needed * Res)

\* C38: every run of complete_video_quest that returns returns true, in the
\* Completed state and in the Abandoned state alike; a run that returns is in
\* one of the two
C38_ResultAlwaysTrue ==
    handler = Watch /\ pc = "returned" =>
        /\ result = "true"
        /\ Completed \/ Abandoned

\* a run returned true although the remote never confirmed
C38_Witness == Abandoned /\ result = "true"

\* a run returned true after the remote's confirmation
C38_WitnessCompleted == Completed /\ result = "true" /\ calls # <<>>

====
